---- MODULE Spec2Model ----
(***************************************************************************)
(* A model of ExampleHTTPServer (src/HttpServer.hh, src/example.cc):       *)
(* the request parser, the Response object and its serialization, the      *)
(* per-connection handler thread and the accept loop.                      *)
(*                                                                         *)
(* Strings are TLA+ strings; the byte at position k of s is                *)
(* SubSeq(s, k, k).  A std::map<std::string, std::string> is a function    *)
(* whose domain is the set of keys; its iteration order (ascending keys)   *)
(* is computed by SortedKeys.                                              *)
(***************************************************************************)
EXTENDS Integers, Sequences, FiniteSets, TLC

VARIABLES
    \* One call of httpRequestParse, followed byte by byte.
    pbuffer,    \* the bytes handed to the parser (its buffer and length)
    pi,         \* how many bytes the for loop has consumed
    pp,         \* the Request under construction and the locals state, tmp, isKey
    ppc,        \* "loop" while the for loop runs, "done" once the call returned
    \* One Response object, used by an application.
    ruse,       \* the Response and the record of its send() calls
    rminor,     \* req->httpMinorVersion of the request it answers
    rcalls,     \* how many methods the application has called
    \* The server: the accept loop and one handler thread per connection.
    onRequestCallback,  \* Server::onRequestCallback: "NULL" or the callback registered
    clientFd,   \* createServer's clientFd: what the last accept() returned
    accepted,   \* how many connections accept() has returned so far
    fdTable,    \* the process's descriptors: 0 (unused) or the connection each is open to
    peer,       \* per open connection, what its peer has done: sent bytes, closed,
                \* or broken the connection ("none": nothing has arrived yet)
    connOut,    \* per open connection, the bytes the transport took for its peer
    threadArg,  \* per thread, the descriptor std::thread copied for it
    pc,         \* per thread, where serverRequestHandler stands
    sock,       \* per thread, serverRequestHandler's sock
    recvLen,    \* per thread, recvLen
    buffer,     \* per thread, the first recvLen bytes of its receive buffer
    req,        \* per thread, *req
    use,        \* per thread, *res and the record of its send() calls
    crashed,    \* the process was killed by a fault
    \* History.
    closes,     \* per thread, how often it has called close()
    strayIO,    \* per thread, whether a recv, write or close of it hit a descriptor
                \* that was not open to its own connection
    cbCalls     \* per thread, how often it has invoked the callback

parseVars == <<pbuffer, pi, pp, ppc>>
respVars  == <<ruse, rminor, rcalls>>
srvVars   == <<onRequestCallback, clientFd, accepted, fdTable, peer, connOut,
               threadArg, pc, sock, recvLen, buffer, req, use, crashed,
               closes, strayIO, cbCalls>>
vars      == <<parseVars, respVars, srvVars>>

(***************************************************************************)
(* Characters.                                                             *)
(***************************************************************************)

\* The printable ASCII characters, code 32 (space) to 126 (~), in code order.
\* Code 96 (the grave accent) cannot be written in a TLA+ string; a tab holds
\* its place, and CharCode gives the tab its own code.
Printable ==
    " !\"#$%&'()*+,-./0123456789:;<=>?@ABCDEFGHIJKLMNOPQRSTUVWXYZ[\\]^_\tabcdefghijklmnopqrstuvwxyz{|}~"

CharAt(s, k) == SubSeq(s, k, k)

\* The value of each char as an unsigned byte.
CodeTable ==
    [ c \in { CharAt(Printable, k) : k \in 1..Len(Printable) } \cup {"\r", "\n"} |->
        CASE c = "\r" -> 13
          [] c = "\n" -> 10
          [] c = "\t" -> 9
          [] OTHER    -> 31 + (CHOOSE k \in 1..Len(Printable) : CharAt(Printable, k) = c) ]

CharCode(c) == CodeTable[c]

CodeChar(n) == CharAt(Printable, n - 31)

\* isdigit(3)
isdigit(c) == CharCode(c) >= 48 /\ CharCode(c) <= 57

\* LowerChar as it would be in a loop that leaves every character as it is.
LowerCharKept(c) == c

\* One iteration of strtolower's loop: an upper-case letter is moved by 32.
LowerChar(c) ==
    IF CharCode(c) >= 65 /\ CharCode(c) <= 90
    THEN CodeChar(CharCode(c) + 32)
    ELSE c

RECURSIVE strtolower(_)
strtolower(str) ==
    IF Len(str) = 0 THEN ""
    ELSE LowerChar(CharAt(str, 1)) \o strtolower(Tail(str))

RECURSIVE to_string(_)
\* std::to_string of a non-negative int: its decimal digits.
to_string(n) ==
    IF n < 10 THEN CodeChar(48 + n)
    ELSE to_string(n \div 10) \o CodeChar(48 + (n % 10))

RECURSIVE LessFrom(_, _, _)
\* a < b, given that a and b agree before position k.
LessFrom(a, b, k) ==
    IF k > Len(b) THEN FALSE
    ELSE IF k > Len(a) THEN TRUE
    ELSE IF CharAt(a, k) = CharAt(b, k) THEN LessFrom(a, b, k + 1)
    ELSE CharCode(CharAt(a, k)) < CharCode(CharAt(b, k))

\* std::less<std::string>: lexicographic comparison of the bytes.
StrLess(a, b) == LessFrom(a, b, 1)

(***************************************************************************)
(* std::map<std::string, std::string>.                                     *)
(***************************************************************************)

EmptyMap == [k \in {} |-> ""]

\* m[k] = v
MapSet(m, k, v) == [x \in (DOMAIN m) \cup {k} |-> IF x = k THEN v ELSE m[x]]

\* m[k] read through operator[]: a missing key reads as the empty string
\* (and is inserted, see MapTouch).
MapGet(m, k) == IF k \in DOMAIN m THEN m[k] ELSE ""

\* The insertion operator[] performs on a missing key.
MapTouch(m, k) == IF k \in DOMAIN m THEN m ELSE MapSet(m, k, "")

RECURSIVE InsertKey(_, _)
\* The ascending sequence keys with k put at its place.
InsertKey(k, keys) ==
    IF keys = <<>> THEN <<k>>
    ELSE IF StrLess(k, Head(keys)) THEN <<k>> \o keys
    ELSE <<Head(keys)>> \o InsertKey(k, Tail(keys))

RECURSIVE SortedKeysOf(_)
\* The elements of S in ascending order.
SortedKeysOf(S) ==
    IF S = {} THEN <<>>
    ELSE LET any == CHOOSE k \in S : TRUE
         IN  InsertKey(any, SortedKeysOf(S \ {any}))

RECURSIVE Reverse(_)
Reverse(q) == IF q = <<>> THEN <<>> ELSE Append(Reverse(Tail(q)), Head(q))

\* SortedKeys as it would be for a map ordered by std::greater.
SortedKeysDescending(m) == Reverse(SortedKeysOf(DOMAIN m))

\* The keys of a map in the order its iterator visits them.
SortedKeys(m) == SortedKeysOf(DOMAIN m)

(***************************************************************************)
(* class Request and httpRequestParse.                                     *)
(***************************************************************************)

PARSER_STATE_METHOD   == 1
PARSER_STATE_URL      == 2
PARSER_STATE_URL_QS   == 3
PARSER_STATE_PROTOCOL == 4
PARSER_STATE_MAJOR    == 5
PARSER_STATE_MINOR    == 6
PARSER_STATE_HEADERS  == 7

\* A Request as its member initializers leave it.
NewRequest ==
    [ hasError         |-> FALSE,
      method           |-> "",
      url              |-> "",
      queryString      |-> "",
      httpMajorVersion |-> 0,
      httpMinorVersion |-> 0,
      headers          |-> EmptyMap ]

\* The locals of httpRequestParse at entry, with the Request it was given.
ParseEntry(r) ==
    [ req   |-> r,
      state |-> PARSER_STATE_METHOD,
      tmp   |-> "",
      isKey |-> TRUE ]

\* IsFiltered as it would be for a filter of the angle brackets alone.
IsFilteredAngles(c) == c = "<" \/ c = ">"

\* The characters the URL and query-string states drop.
IsFiltered(c) == c = "<" \/ c = ">" \/ CharCode(c) = 34 \/ CharCode(c) = 39

ParseMethod(p, c) ==
    IF c = " "
    THEN [p EXCEPT !.req.method = p.tmp, !.state = PARSER_STATE_URL, !.tmp = ""]
    ELSE [p EXCEPT !.tmp = @ \o c]

ParseUrl(p, c) ==
    IF c = " " \/ c = "?"
    THEN [p EXCEPT !.req.url = p.tmp,
                   !.state = IF c = "?" THEN PARSER_STATE_URL_QS
                                        ELSE PARSER_STATE_PROTOCOL,
                   !.tmp = ""]
    ELSE IF IsFiltered(c) THEN p
    ELSE [p EXCEPT !.tmp = @ \o c]

ParseUrlQs(p, c) ==
    IF c = " "
    THEN [p EXCEPT !.req.queryString = p.tmp,
                   !.state = PARSER_STATE_PROTOCOL,
                   !.tmp = ""]
    ELSE IF IsFiltered(c) THEN p
    ELSE [p EXCEPT !.tmp = @ \o c]

ParseProtocol(p, c) ==
    IF c = "/"
    THEN [p EXCEPT !.req.hasError = IF p.tmp # "HTTP" THEN TRUE ELSE @,
                   !.state = PARSER_STATE_MAJOR,
                   !.tmp = ""]
    ELSE [p EXCEPT !.tmp = @ \o c]

\* ParseMajor as it would be in a parser that reads the major version as a
\* decimal number.
ParseMajorAccumulating(p, c) ==
    IF isdigit(c)
    THEN [p EXCEPT !.req.httpMajorVersion = 10 * @ + (CharCode(c) - 48)]
    ELSE IF c = "."
    THEN [p EXCEPT !.state = PARSER_STATE_MINOR]
    ELSE p

ParseMajor(p, c) ==
    IF isdigit(c)
    THEN [p EXCEPT !.req.httpMajorVersion = CharCode(c) - 48]
    ELSE IF c = "."
    THEN [p EXCEPT !.state = PARSER_STATE_MINOR]
    ELSE p

ParseMinor(p, c) ==
    LET q == IF isdigit(c)
             THEN [p EXCEPT !.req.httpMinorVersion = CharCode(c) - 48]
             ELSE p
    IN  IF c = "\n" THEN [q EXCEPT !.state = PARSER_STATE_HEADERS] ELSE q

\* ParseHeaders as a parser would be that takes a line without a colon for a
\* header with an empty value.
ParseHeadersBareLine(p, c) ==
    IF c = "\n"
    THEN [p EXCEPT !.isKey = TRUE, !.tmp = "",
                   !.req.headers = IF p.isKey /\ Len(p.tmp) > 0
                                   THEN MapSet(@, strtolower(p.tmp), "")
                                   ELSE @]
    ELSE IF p.isKey /\ c = ":"
    THEN [p EXCEPT !.tmp = strtolower(p.tmp),
                   !.req.headers = MapSet(@, strtolower(p.tmp), ""),
                   !.isKey = FALSE]
    ELSE IF p.isKey
    THEN [p EXCEPT !.tmp = @ \o c]
    ELSE IF c = "\r" \/ (Len(MapGet(p.req.headers, p.tmp)) = 0 /\ c = " ")
    THEN [p EXCEPT !.req.headers = MapTouch(@, p.tmp)]
    ELSE [p EXCEPT !.req.headers = MapSet(@, p.tmp, MapGet(@, p.tmp) \o c)]

ParseHeaders(p, c) ==
    IF c = "\n"
    THEN [p EXCEPT !.isKey = TRUE, !.tmp = ""]
    ELSE IF p.isKey /\ c = ":"
    THEN [p EXCEPT !.tmp = strtolower(p.tmp),
                   !.req.headers = MapSet(@, strtolower(p.tmp), ""),
                   !.isKey = FALSE]
    ELSE IF p.isKey
    THEN [p EXCEPT !.tmp = @ \o c]
    ELSE IF c = "\r" \/ (Len(MapGet(p.req.headers, p.tmp)) = 0 /\ c = " ")
    THEN [p EXCEPT !.req.headers = MapTouch(@, p.tmp)]
    ELSE [p EXCEPT !.req.headers = MapSet(@, p.tmp, MapGet(@, p.tmp) \o c)]

\* One iteration of the for loop: the switch on state, applied to one byte.
ParseByte(p, c) ==
    CASE p.state = PARSER_STATE_METHOD   -> ParseMethod(p, c)
      [] p.state = PARSER_STATE_URL      -> ParseUrl(p, c)
      [] p.state = PARSER_STATE_URL_QS   -> ParseUrlQs(p, c)
      [] p.state = PARSER_STATE_PROTOCOL -> ParseProtocol(p, c)
      [] p.state = PARSER_STATE_MAJOR    -> ParseMajor(p, c)
      [] p.state = PARSER_STATE_MINOR    -> ParseMinor(p, c)
      [] p.state = PARSER_STATE_HEADERS  -> ParseHeaders(p, c)
      [] OTHER                           -> p

\* ParsePostPass as it would be without the check of the major version.
ParsePostPassUnchecked(r) == r

\* The validation after the loop.
ParsePostPass(r) ==
    IF r.httpMajorVersion # 1 THEN [r EXCEPT !.hasError = TRUE] ELSE r

RECURSIVE ParseLoop(_, _, _)
\* The for loop from index k (1-based) to the end of the buffer.
ParseLoop(p, buf, k) ==
    IF k > Len(buf) THEN p
    ELSE ParseLoop(ParseByte(p, CharAt(buf, k)), buf, k + 1)

\* httpRequestParse(req, buffer, length): the Request it leaves.
httpRequestParse(r, buf) == ParsePostPass(ParseLoop(ParseEntry(r), buf, 1).req)

(***************************************************************************)
(* httpStatusMessage and sendBytes.                                        *)
(***************************************************************************)

\* The msg[] table, without its {0, NULL} sentinel.
StatusTable ==
    [ c \in {200, 301, 302, 304, 307, 400, 401, 403, 404, 405, 411, 413, 414,
             429, 500, 502, 503, 504, 505} |->
        CASE c = 200 -> "Ok"
          [] c = 301 -> "Moved Permanently"
          [] c = 302 -> "Found"
          [] c = 304 -> "Not Modified"
          [] c = 307 -> "Temporary Redirect"
          [] c = 400 -> "Bad Request"
          [] c = 401 -> "Unauthorized"
          [] c = 403 -> "Forbidden"
          [] c = 404 -> "Not Found"
          [] c = 405 -> "Method Not Allowed"
          [] c = 411 -> "Length Required"
          [] c = 413 -> "Request Entity Too Large"
          [] c = 414 -> "Request-URI Too Long"
          [] c = 429 -> "Too Many Requests"
          [] c = 500 -> "Internal Server Error"
          [] c = 502 -> "Bad Gateway"
          [] c = 503 -> "Service Unavailable"
          [] c = 504 -> "Gateway Timeout"
          [] c = 505 -> "HTTP Version Not Supported" ]

\* A const char *: either NULL or a C string.
NullPtr    == [null |-> TRUE, str |-> ""]
CStr(text) == [null |-> FALSE, str |-> text]

\* The table scan: the message of the first matching entry, NULL when the
\* scan reaches the sentinel.
httpStatusMessage(httpStatusCode) ==
    IF httpStatusCode \in DOMAIN StatusTable
    THEN CStr(StatusTable[httpStatusCode])
    ELSE NullPtr

\* std::string += const char * is undefined for a null pointer.  The builds
\* either fault there (the read of address 0 kills the process) or come back
\* having appended nothing.
UBOutcomes == {"fault", "nothing"}

RECURSIVE SendLoop(_, _, _)
\* The while loop of sendBytes.  plan lists what the successive send(2) calls
\* answer (each cut to the length still to send); once the plan is used up
\* the transport takes whatever is left.  n is the last answer so far.
\* Gives the value returned and the bytes the transport took.
SendLoop(data, plan, n) ==
    IF Len(data) = 0 THEN [n |-> n, taken |-> ""]
    ELSE LET want == IF plan = <<>> THEN Len(data) ELSE Head(plan)
             got  == IF want > Len(data) THEN Len(data) ELSE want
             rest == IF plan = <<>> THEN <<>> ELSE Tail(plan)
         IN  IF got < 1 THEN [n |-> got, taken |-> ""]
             ELSE LET more == SendLoop(SubSeq(data, got + 1, Len(data)), rest, got)
                  IN  [n |-> more.n, taken |-> SubSeq(data, 1, got) \o more.taken]

sendBytes(data, plan) == SendLoop(data, plan, 0)

(***************************************************************************)
(* class Response.  A thread that uses a Response is described by          *)
(*   res     the Response's fields,                                        *)
(*   sends   one record per call of send(), in call order,                 *)
(*   faulted whether the thread ran into the null-pointer append and the   *)
(*           build faulted there.                                          *)
(***************************************************************************)

NewResponse == [statusCode |-> 200, headers |-> EmptyMap, body |-> ""]

NewUse ==
    [res |-> NewResponse, sends |-> <<>>, faulted |-> FALSE, order |-> <<>>]

\* History kept beside the header map: its keys in the order in which they
\* were first inserted.
Inserted(m, key) ==
    IF key \in DOMAIN m.res.headers THEN m.order ELSE Append(m.order, key)

\* Response::header
header(m, key, value) ==
    [m EXCEPT !.res.headers = MapSet(@, key, value),
              !.order = Inserted(m, key)]

\* Response::errorPage
errorPage(m, ub) ==
    LET h    == header(header(m, "Content-Type", "text/html"),
                       "Cache-Control", "no-cache, no-store, must-revalidate")
        sc   == m.res.statusCode
        msg  == httpStatusMessage(sc)
        upTo == "<!doctype html><html lang=\"en\">"
                   \o "<head><title>Error</title></head>"
                   \o "<body><h1>Error "
                   \o to_string(sc)
                   \o "</h1><hr><p>"
    IN  IF msg.null /\ ub = "fault"
        THEN [h EXCEPT !.res.body = upTo, !.faulted = TRUE]
        ELSE [h EXCEPT !.res.body = upTo \o msg.str \o "</p></body></html>"]

\* SendHeaders as it would be if send() kept a Content-Length that is
\* already in the map.
SendHeadersKeepLength(res) ==
    MapSet(IF "Content-Length" \in DOMAIN res.headers
           THEN res.headers
           ELSE MapSet(res.headers, "Content-Length", to_string(Len(res.body))),
           "Conection", "close")

\* The two assignments send() makes to the header map before it serializes.
SendHeaders(res) ==
    MapSet(MapSet(res.headers, "Content-Length", to_string(Len(res.body))),
           "Conection", "close")

RECURSIVE HeaderLines(_, _)
\* The range-for over the header map: one "key: value CRLF" per entry, in
\* the order keys lists them.
HeaderLines(headers, keys) ==
    IF keys = <<>> THEN ""
    ELSE Head(keys) \o ": " \o headers[Head(keys)] \o "\r\n"
            \o HeaderLines(headers, Tail(keys))

\* StatusLine as it would be if it wrote the request's minor version digit.
StatusLineEchoMinor(minor, statusCode, reason) ==
    "HTTP/1." \o to_string(minor) \o " "
        \o to_string(statusCode) \o " " \o reason \o "\r\n"

\* The status line of send().
StatusLine(minor, statusCode, reason) ==
    "HTTP/1." \o (IF minor = 0 THEN "0" ELSE "1") \o " "
        \o to_string(statusCode) \o " " \o reason \o "\r\n"

\* WriteFailed as it would be if a write that ended on an answer of 0 were
\* taken for a failure too.
WriteFailedOrStalled(w) == w.n < 1

\* if (sendLen < 0), for the result w of a write.
WriteFailed(w) == w.n < 0

\* Response::send, for a request of minor version `minor`.  planHead and
\* planBody are the transport's answers during the two writes.
send(m, minor, ub, planHead, planBody) ==
    LET hs   == SendHeaders(m.res)
        ord  == Inserted([m EXCEPT !.order = Inserted(m, "Content-Length"),
                                   !.res.headers = MapTouch(@, "Content-Length")],
                         "Conection")
        msg  == httpStatusMessage(m.res.statusCode)
        head == StatusLine(minor, m.res.statusCode, msg.str)
                   \o HeaderLines(hs, SortedKeys(hs)) \o "\r\n"
        w1   == sendBytes(head, planHead)
        w2   == sendBytes(m.res.body, planBody)
        call == [ body   |-> m.res.body,
                  minor  |-> minor,
                  status |-> m.res.statusCode,
                  order  |-> ord ]
    IN  IF msg.null /\ ub = "fault"
        THEN [m EXCEPT !.res.headers = hs, !.order = ord, !.faulted = TRUE,
                       !.sends = Append(@, call @@
                           [head |-> "", writes |-> <<>>, returned |-> "fault"])]
        ELSE IF WriteFailed(w1)
        THEN [m EXCEPT !.res.headers = hs, !.order = ord,
                       !.sends = Append(@, call @@
                           [head |-> head, writes |-> <<w1>>, returned |-> "false"])]
        ELSE [m EXCEPT !.res.headers = hs, !.order = ord,
                       !.sends = Append(@, call @@
                           [head |-> head, writes |-> <<w1, w2>>,
                            returned |-> IF WriteFailed(w2) THEN "false" ELSE "true"])]

(***************************************************************************)
(* The server's state.                                                     *)
(***************************************************************************)

\* How many connections the accept loop takes in a run of the model.  They
\* are numbered 1..MaxConns in the order accepted; thread t is the one
\* spawned for connection t.
MaxConns == 2

Conns == 1..MaxConns

\* The descriptors accept() can return.
FDs == 1..MaxConns

RECV_BUFFER_SIZE == 2048

\* The server before createServer is called: no callback, no connection.
SrvStart ==
    /\ clientFd = 0
    /\ accepted = 0
    /\ fdTable = [fd \in FDs |-> 0]
    /\ peer = [c \in Conns |-> [kind |-> "none", bytes |-> ""]]
    /\ connOut = [c \in Conns |-> ""]
    /\ threadArg = [t \in Conns |-> 0]
    /\ pc = [t \in Conns |-> "idle"]
    /\ sock = [t \in Conns |-> 0]
    /\ recvLen = [t \in Conns |-> 0]
    /\ buffer = [t \in Conns |-> ""]
    /\ req = [t \in Conns |-> NewRequest]
    /\ use = [t \in Conns |-> NewUse]
    /\ crashed = FALSE
    /\ closes = [t \in Conns |-> 0]
    /\ strayIO = [t \in Conns |-> FALSE]
    /\ cbCalls = [t \in Conns |-> 0]

\* The server not running: no callback registered, no connection.
SrvIdle == onRequestCallback = "NULL" /\ SrvStart

\* No Response is in use outside the server.
RespIdle == ruse = NewUse /\ rminor = 0 /\ rcalls = 0

\* No parser call is followed outside the server.
ParseIdle ==
    pbuffer = "" /\ pi = 0 /\ pp = ParseEntry(NewRequest) /\ ppc = "idle"

(***************************************************************************)
(* The callbacks an application may register (Server::onRequest).          *)
(***************************************************************************)

RECURSIVE EchoHeaders(_, _)
\* The range-for of the example callback over req->headers.
EchoHeaders(headers, keys) ==
    IF keys = <<>> THEN ""
    ELSE Head(keys) \o ": " \o headers[Head(keys)] \o "\n"
            \o EchoHeaders(headers, Tail(keys))

\* The lambda of example.cc.
ExampleCallback(r, m, ub, planHead, planBody) ==
    LET h    == header(header(header(m, "Content-Type", "text/plain"),
                              "Server", "ExampleHTTPServer"),
                       "Cache-Control", "no-cache, no-store, must-revalidate")
        echo == "Your Request:\n"
                   \o "method: " \o r.method \o "\n"
                   \o "http version: " \o to_string(r.httpMajorVersion) \o "."
                   \o to_string(r.httpMinorVersion) \o "\n"
                   \o "url: " \o r.url \o "\n"
                   \o (IF r.queryString # ""
                       THEN "query string: " \o r.queryString \o "\n"
                       ELSE "")
                   \o "headers:\n"
                   \o EchoHeaders(r.headers, SortedKeys(r.headers))
        filled == IF r.url = "/" \/ r.url = "/index.cpp"
                  THEN [h EXCEPT !.res.body = echo]
                  ELSE errorPage([h EXCEPT !.res.statusCode = 404], ub)
    IN  IF filled.faulted THEN filled
        ELSE send(filled, r.httpMinorVersion, ub, planHead, planBody)

\* A callback that answers with a status code of its own, 999, and sends.
UnknownStatusCallback(r, m, ub, planHead, planBody) ==
    send([m EXCEPT !.res.statusCode = 999], r.httpMinorVersion, ub, planHead, planBody)

\* A callback that returns without calling send().
SilentCallback(r, m, ub, planHead, planBody) == m

RegisteredCallbacks == {"NULL", "example", "unknown", "silent"}

\* server->onRequestCallback(req, res)
Callback(name, r, m, ub, planHead, planBody) ==
    CASE name = "example" -> ExampleCallback(r, m, ub, planHead, planBody)
      [] name = "unknown" -> UnknownStatusCallback(r, m, ub, planHead, planBody)
      [] OTHER            -> SilentCallback(r, m, ub, planHead, planBody)

(***************************************************************************)
(* createServer's accept loop and serverRequestHandler.                    *)
(***************************************************************************)

\* The requests the peers of the model send.
ServerRequests ==
    { "GET / HTTP/1.1\r\nHost: a\r\n\r\n",
      "GET /nope?q=1 HTTP/1.0\r\n\r\n",
      "GET / FOO/1.1\r\n\r\n" }

\* A peer sends a request, closes without sending, or its connection breaks.
PeerBehaviours ==
    { [kind |-> "data", bytes |-> b] : b \in ServerRequests }
        \cup { [kind |-> "closed", bytes |-> ""], [kind |-> "error", bytes |-> ""] }

\* What the transport answers during one write of a handler: it takes
\* everything, or fails.
ServerPlans == {<<>>, <<-1>>}

\* The connection a descriptor is open to, 0 when it is not open.
ConnOf(fd) == IF fd \in FDs THEN fdTable[fd] ELSE 0

\* accept() returns the lowest descriptor not in use.
LowestFree ==
    CHOOSE fd \in FDs : fdTable[fd] = 0 /\ \A g \in FDs : g < fd => fdTable[g] # 0

\* AcceptConnection as it would be if the loop joined each thread instead of
\* detaching it: accept() is reached again only once no handler is running.
AcceptConnectionJoined ==
    /\ ~crashed
    /\ accepted < MaxConns
    /\ \A t \in Conns : pc[t] \in {"idle", "done"}
    /\ clientFd' = LowestFree
    /\ accepted' = accepted + 1
    /\ fdTable' = [fdTable EXCEPT ![LowestFree] = accepted + 1]
    /\ threadArg' = [threadArg EXCEPT ![accepted + 1] = LowestFree]
    /\ pc' = [pc EXCEPT ![accepted + 1] = "start"]
    /\ UNCHANGED <<onRequestCallback, peer, connOut, sock, recvLen, buffer, req, use,
                   crashed, closes, strayIO, cbCalls, parseVars, respVars>>

\* while (1): accept() returns a connection, and a detached thread is
\* started for it with a copy of clientFd.
AcceptConnection ==
    /\ ~crashed
    /\ accepted < MaxConns
    /\ clientFd' = LowestFree
    /\ accepted' = accepted + 1
    /\ fdTable' = [fdTable EXCEPT ![LowestFree] = accepted + 1]
    /\ threadArg' = [threadArg EXCEPT ![accepted + 1] = LowestFree]
    /\ pc' = [pc EXCEPT ![accepted + 1] = "start"]
    /\ UNCHANGED <<onRequestCallback, peer, connOut, sock, recvLen, buffer, req, use,
                   crashed, closes, strayIO, cbCalls, parseVars, respVars>>

\* while (1): accept() fails, clientFd <= 0, continue.
AcceptFails ==
    /\ ~crashed
    /\ clientFd' = -1
    /\ UNCHANGED <<onRequestCallback, accepted, fdTable, peer, connOut, threadArg,
                   pc, sock, recvLen, buffer, req, use, crashed, closes, strayIO,
                   cbCalls, parseVars, respVars>>

\* The thread argument by reference: what a thread would see that read the
\* accept loop's clientFd instead of its own copy.
ThreadArgShared(t) == clientFd

\* The descriptor serverRequestHandler receives: the thread's own copy.
ThreadArg(t) == threadArg[t]

\* serverRequestHandler up to the loop: new Request, new Response, buffer.
HandlerStart(t) ==
    /\ ~crashed
    /\ pc[t] = "start"
    /\ sock' = [sock EXCEPT ![t] = ThreadArg(t)]
    /\ req' = [req EXCEPT ![t] = NewRequest]
    /\ use' = [use EXCEPT ![t] = NewUse]
    /\ buffer' = [buffer EXCEPT ![t] = ""]
    /\ pc' = [pc EXCEPT ![t] = "recv"]
    /\ UNCHANGED <<onRequestCallback, clientFd, accepted, fdTable, peer, connOut,
                   threadArg, recvLen, crashed, closes, strayIO, cbCalls,
                   parseVars, respVars>>

\* What recv(sock, buffer, RECV_BUFFER_SIZE, 0) returns on a descriptor open
\* to connection c (0: not open) whose peer has done `behaviour`.
RecvResult(c, behaviour) ==
    IF c = 0 THEN -1
    ELSE CASE behaviour.kind = "data" ->
                IF Len(behaviour.bytes) > RECV_BUFFER_SIZE
                THEN RECV_BUFFER_SIZE ELSE Len(behaviour.bytes)
           [] behaviour.kind = "closed" -> 0
           [] OTHER -> -1

\* AfterRecv as it would be in a handler that only breaks on a negative
\* result.
AfterRecvNegativeOnly(n) == IF n >= 0 THEN "parse" ELSE "close"

\* if (recvLen == 0) break; else if (recvLen < 0) break: where the handler
\* goes when recv has returned n.
AfterRecv(n) == IF n > 0 THEN "parse" ELSE "close"

\* memset, recv, and the two breaks on recvLen == 0 and recvLen < 0.  The
\* blocking recv returns when the peer of the connection has done something.
Recv(t) ==
    /\ ~crashed
    /\ pc[t] = "recv"
    /\ \E behaviour \in PeerBehaviours :
          /\ peer' = IF ConnOf(sock[t]) = 0 THEN peer
                     ELSE [peer EXCEPT ![ConnOf(sock[t])] = behaviour]
          /\ recvLen' = [recvLen EXCEPT ![t] = RecvResult(ConnOf(sock[t]), behaviour)]
          /\ buffer' = [buffer EXCEPT ![t] =
                          IF RecvResult(ConnOf(sock[t]), behaviour) > 0
                          THEN SubSeq(behaviour.bytes, 1,
                                      RecvResult(ConnOf(sock[t]), behaviour))
                          ELSE ""]
          /\ pc' = [pc EXCEPT ![t] =
                      AfterRecv(RecvResult(ConnOf(sock[t]), behaviour))]
    /\ strayIO' = [strayIO EXCEPT ![t] = @ \/ ConnOf(sock[t]) # t]
    /\ UNCHANGED <<onRequestCallback, clientFd, accepted, fdTable, connOut,
                   threadArg, sock, req, use, crashed, closes, cbCalls,
                   parseVars, respVars>>

\* AfterParse as it would be in a handler that does not look at hasError.
AfterParseUnchecked(r) == "dispatch"

\* if (req->hasError == true): where the handler goes after the parse.
AfterParse(r) == IF r.hasError THEN "error" ELSE "dispatch"

\* rc = httpRequestParse(req, buffer, recvLen); rc is always true.
Parse(t) ==
    /\ ~crashed
    /\ pc[t] = "parse"
    /\ \E parsed \in {httpRequestParse(req[t], buffer[t])} :
          /\ req' = [req EXCEPT ![t] = parsed]
          /\ pc' = [pc EXCEPT ![t] = AfterParse(parsed)]
    /\ UNCHANGED <<onRequestCallback, clientFd, accepted, fdTable, peer, connOut,
                   threadArg, sock, recvLen, buffer, use, crashed, closes, strayIO,
                   cbCalls, parseVars, respVars>>

RECURSIVE TakenIn(_)
\* The bytes the transport took during a sequence of writes.
TakenIn(writes) ==
    IF writes = <<>> THEN "" ELSE Head(writes).taken \o TakenIn(Tail(writes))

RECURSIVE Taken(_)
\* The bytes the transport took during a sequence of send() calls.
Taken(sends) ==
    IF sends = <<>> THEN "" ELSE TakenIn(Head(sends).writes) \o Taken(Tail(sends))

\* The transport answers for a write of thread t: a descriptor that is not
\* open only fails.
PlansFor(t) == IF ConnOf(sock[t]) = 0 THEN {<<-1>>} ELSE ServerPlans

\* Thread t has used its Response, leaving it as m: the bytes of its new
\* writes reach the connection its sock is open to, and a fault kills the
\* process.
Respond(t, m) ==
    /\ use' = [use EXCEPT ![t] = m]
    /\ connOut' = IF ConnOf(sock[t]) = 0 THEN connOut
                  ELSE [connOut EXCEPT ![ConnOf(sock[t])] =
                          @ \o SubSeq(Taken(m.sends), Len(Taken(use[t].sends)) + 1,
                                      Len(Taken(m.sends)))]
    /\ strayIO' = [strayIO EXCEPT ![t] =
                      @ \/ (Len(m.sends) > Len(use[t].sends) /\ ConnOf(sock[t]) # t)]
    /\ crashed' = m.faulted
    /\ pc' = [pc EXCEPT ![t] = IF m.faulted THEN "fault" ELSE "close"]

\* res->statusCode = 400; res->errorPage(); res->send();
ErrorResponse(m, minor, ub, planHead, planBody) ==
    LET page == errorPage([m EXCEPT !.res.statusCode = 400], ub)
    IN  IF page.faulted THEN page ELSE send(page, minor, ub, planHead, planBody)

\* The branch taken when the parse left hasError set.
ErrorReply(t) ==
    /\ ~crashed
    /\ pc[t] = "error"
    /\ \E ub \in UBOutcomes, planHead \in PlansFor(t), planBody \in PlansFor(t) :
          \E m \in {ErrorResponse(use[t], req[t].httpMinorVersion, ub,
                                  planHead, planBody)} :
              Respond(t, m)
    /\ UNCHANGED <<onRequestCallback, clientFd, accepted, fdTable, peer, threadArg,
                   sock, recvLen, buffer, req, closes, cbCalls, parseVars, respVars>>

\* DispatchNone as it would be in a handler that sends the Response itself
\* when no callback is registered.
DispatchNoneAnswered(t) ==
    /\ ~crashed
    /\ pc[t] = "dispatch"
    /\ onRequestCallback = "NULL"
    /\ \E ub \in UBOutcomes, planHead \in PlansFor(t), planBody \in PlansFor(t) :
          \E m \in {send(use[t], req[t].httpMinorVersion, ub, planHead, planBody)} :
              Respond(t, m)
    /\ UNCHANGED <<onRequestCallback, clientFd, accepted, fdTable, peer, threadArg,
                   sock, recvLen, buffer, req, closes, cbCalls, parseVars, respVars>>

\* if (server->onRequestCallback != NULL) fails: nothing is done.
DispatchNone(t) ==
    /\ ~crashed
    /\ pc[t] = "dispatch"
    /\ onRequestCallback = "NULL"
    /\ pc' = [pc EXCEPT ![t] = "close"]
    /\ UNCHANGED <<onRequestCallback, clientFd, accepted, fdTable, peer, connOut,
                   threadArg, sock, recvLen, buffer, req, use, crashed, closes,
                   strayIO, cbCalls, parseVars, respVars>>

\* server->onRequestCallback(req, res); its result is not looked at.
DispatchCallback(t) ==
    /\ ~crashed
    /\ pc[t] = "dispatch"
    /\ onRequestCallback # "NULL"
    /\ \E ub \in UBOutcomes, planHead \in PlansFor(t), planBody \in PlansFor(t) :
          \E m \in {Callback(onRequestCallback, req[t], use[t], ub,
                             planHead, planBody)} :
              Respond(t, m)
    /\ cbCalls' = [cbCalls EXCEPT ![t] = @ + 1]
    /\ UNCHANGED <<onRequestCallback, clientFd, accepted, fdTable, peer, threadArg,
                   sock, recvLen, buffer, req, closes, parseVars, respVars>>

\* close(sock), the deletes, return.  The connection is gone, and with it
\* what the model knew of its peer; the thread's locals are gone.
Close(t) ==
    /\ ~crashed
    /\ pc[t] = "close"
    /\ fdTable' = IF sock[t] \in FDs THEN [fdTable EXCEPT ![sock[t]] = 0] ELSE fdTable
    /\ peer' = IF ConnOf(sock[t]) = 0 THEN peer
               ELSE [peer EXCEPT ![ConnOf(sock[t])] = [kind |-> "none", bytes |-> ""]]
    /\ connOut' = IF ConnOf(sock[t]) = 0 THEN connOut
                  ELSE [connOut EXCEPT ![ConnOf(sock[t])] = ""]
    /\ closes' = [closes EXCEPT ![t] = @ + 1]
    /\ strayIO' = [strayIO EXCEPT ![t] = @ \/ ConnOf(sock[t]) # t]
    /\ sock' = [sock EXCEPT ![t] = 0]
    /\ recvLen' = [recvLen EXCEPT ![t] = 0]
    /\ buffer' = [buffer EXCEPT ![t] = ""]
    /\ req' = [req EXCEPT ![t] = NewRequest]
    /\ use' = [use EXCEPT ![t] = NewUse]
    /\ pc' = [pc EXCEPT ![t] = "done"]
    /\ UNCHANGED <<onRequestCallback, clientFd, accepted, threadArg, crashed,
                   cbCalls, parseVars, respVars>>

\* The steps of serverRequestHandler in thread t.
Handler(t) ==
    \/ HandlerStart(t)
    \/ Recv(t)
    \/ Parse(t)
    \/ ErrorReply(t)
    \/ DispatchNone(t)
    \/ DispatchCallback(t)
    \/ Close(t)

\* main: the callback is registered (or not), then createServer runs.
Init ==
    /\ onRequestCallback \in RegisteredCallbacks
    /\ SrvStart
    /\ ParseIdle
    /\ RespIdle

Next ==
    \/ AcceptConnection
    \/ AcceptFails
    \/ \E t \in Conns : Handler(t)

Spec == Init /\ [][Next]_vars

\* The threads whose handler is running.
Live == { t \in Conns : pc[t] \notin {"idle", "done"} }

\* The handler of thread t has a next step: the process is alive and the
\* thread is at one of the handler's statements.
CanStep(t) ==
    /\ ~crashed
    /\ pc[t] \in {"start", "recv", "parse", "error", "dispatch", "close"}

\* The HTML page errorPage() builds for status 400.
ErrorBody400 ==
    "<!doctype html><html lang=\"en\"><head><title>Error</title></head>"
        \o "<body><h1>Error 400</h1><hr><p>Bad Request</p></body></html>"

\* C3: when the parse of a connection's bytes leaves hasError true, the
\* handler does not dispatch; it sets statusCode to 400, builds the HTML error
\* body and calls send() once, the callback not having been invoked and the
\* connection still being open; and its next step closes the connection.
C3_ParseErrorAnswered ==
    /\ [](\A t \in Conns :
            /\ pc[t] = "dispatch" => ~req[t].hasError
            /\ (pc[t] = "close" /\ recvLen[t] > 0 /\ req[t].hasError) =>
                  /\ use[t].res.statusCode = 400
                  /\ use[t].res.body = ErrorBody400
                  /\ Len(use[t].sends) = 1
                  /\ use[t].sends[1].status = 400
                  /\ use[t].sends[1].body = ErrorBody400
                  /\ cbCalls[t] = 0
                  /\ closes[t] = 0
                  /\ ConnOf(sock[t]) = t)
    /\ [][\A t \in Conns :
            (pc[t] = "close" /\ req[t].hasError /\ pc'[t] # "close") =>
                /\ pc'[t] = "done"
                /\ closes'[t] = 1
                /\ fdTable'[sock[t]] = 0
                /\ cbCalls'[t] = 0]_vars

\* A handler has answered a request with a wrong protocol token: the whole
\* 400 response has reached its peer, and the connection is about to be
\* closed.
C3_Witness ==
    \E t \in Conns :
        /\ pc[t] = "close"
        /\ buffer[t] = "GET / FOO/1.1\r\n\r\n"
        /\ req[t].hasError
        /\ Len(use[t].sends) = 1
        /\ use[t].sends[1].returned = "true"
        /\ connOut[t] = use[t].sends[1].head \o ErrorBody400

\* C4: every handler that starts closes its connection exactly once and
\* touches no descriptor that is not open to its own connection (no I/O
\* after the close); and until it has closed, the handler can always take
\* its next step, so that it reaches the close once its read returns.
C4_EveryHandlerCloses ==
    \A t \in Conns :
        /\ closes[t] <= 1
        /\ (pc[t] = "done" <=> closes[t] = 1)
        /\ ~strayIO[t]
        /\ t \in Live => CanStep(t)

\* C9: each handler works on its own connection only.  Its sock is the
\* descriptor of its connection, its buffer holds the bytes its own peer
\* sent, its Request is what those bytes parse to, the bytes its connection
\* received are the bytes of its own Response's writes and of nothing else;
\* and a step changes the buffer, Request and Response of one thread at
\* most, the one that takes the step.
C9_HandlersIsolated ==
    /\ [](\A t \in Conns :
            /\ ~strayIO[t]
            /\ (t \in Live /\ pc[t] # "start") => ConnOf(sock[t]) = t
            /\ (pc[t] \in {"parse", "error", "dispatch", "close", "fault"}
                    /\ recvLen[t] > 0) =>
                  buffer[t] = peer[t].bytes
            /\ (pc[t] \in {"error", "dispatch", "close", "fault"}
                    /\ recvLen[t] > 0) =>
                  req[t] = httpRequestParse(NewRequest, peer[t].bytes)
            /\ t \in Live => connOut[t] = Taken(use[t].sends)
            /\ t \notin Live => connOut[t] = "")
    /\ [][\A t \in Conns :
            <<buffer[t], req[t], use[t]>>' # <<buffer[t], req[t], use[t]>> =>
                /\ pc'[t] # pc[t]
                /\ \A u \in Conns \ {t} :
                      /\ pc'[u] = pc[u]
                      /\ <<buffer[u], req[u], use[u]>>' = <<buffer[u], req[u], use[u]>>]_vars

\* Two handlers are active at once, each having answered its own request:
\* the two connections have received different responses.
C9_Witness ==
    /\ onRequestCallback = "example"
    /\ pc[1] = "close" /\ pc[2] = "close"
    /\ req[1].url = "/" /\ req[2].url = "/nope"
    /\ connOut[1] # "" /\ connOut[2] # ""
    /\ connOut[1] # connOut[2]

\* An error has occurred on the connection of thread t: a negative read, a
\* parse error, a failed write, or a response with an unknown status code.
HadError(t) ==
    /\ pc[t] \in {"error", "close", "fault"}
    /\ \/ recvLen[t] < 0
       \/ req[t].hasError
       \/ \E i \in 1..Len(use[t].sends) :
             \/ use[t].sends[i].returned # "true"
             \/ use[t].sends[i].status \notin DOMAIN StatusTable

\* C10: an error on one connection ends that connection's handler only:
\* every other running handler can still take its next step towards its
\* close, and the process, with its accept loop, is still alive.
C10_ErrorsStayLocal ==
    \A t \in Conns :
        HadError(t) =>
            /\ \A u \in Live \ {t} : CanStep(u)
            /\ ~crashed

\* C16: every successful accept hands the new connection, with its
\* descriptor, to one new handler thread and touches no other thread; there
\* is one handler per accepted connection; a failed accept starts no handler;
\* and the loop never waits for a handler: as long as the process lives it
\* can accept again, whatever the handlers are doing.
C16_AcceptNeverWaits ==
    /\ [](/\ { t \in Conns : pc[t] # "idle" } = 1..accepted
          /\ (~crashed /\ accepted < MaxConns) => ENABLED AcceptConnection
          /\ ~crashed => ENABLED AcceptFails)
    /\ [][accepted' # accepted =>
            /\ accepted' = accepted + 1
            /\ clientFd' > 0
            /\ fdTable[clientFd'] = 0
            /\ fdTable'[clientFd'] = accepted'
            /\ pc[accepted'] = "idle"
            /\ pc'[accepted'] = "start"
            /\ threadArg'[accepted'] = clientFd'
            /\ \A u \in Conns \ {accepted'} :
                  pc'[u] = pc[u] /\ threadArg'[u] = threadArg[u]]_vars
    /\ [][(clientFd' # clientFd /\ clientFd' <= 0) =>
            (pc' = pc /\ accepted' = accepted /\ threadArg' = threadArg)]_vars

\* A second connection has been accepted, and its thread started, while the
\* handler of the first stands at its read.
C16_Witness ==
    /\ accepted = 2
    /\ pc[1] = "recv"
    /\ pc[2] = "start"
    /\ threadArg[1] # threadArg[2]

\* The order of the handler's steps.
HandlerEdges ==
    { <<"idle", "start">>, <<"start", "recv">>,
      <<"recv", "parse">>, <<"recv", "close">>,
      <<"parse", "error">>, <<"parse", "dispatch">>,
      <<"error", "close">>,
      <<"dispatch", "close">>, <<"dispatch", "fault">>,
      <<"close", "done">> }

\* C17: the steps of a handler happen at most once each, in the order read,
\* parse, dispatch, close; the parser is called only after a read that
\* returned a positive count; the callback is invoked at most once, and only
\* after a parse that left hasError false; and on that path the handler
\* writes nothing itself: the connection has received what the callback's
\* send() calls wrote, and nothing when no callback is registered or the
\* callback does not send.
C17_StepsOnceInOrder ==
    /\ [][\A t \in Conns : pc'[t] # pc[t] => <<pc[t], pc'[t]>> \in HandlerEdges]_vars
    /\ [](\A t \in Conns :
            /\ pc[t] = "parse" => recvLen[t] > 0
            /\ pc[t] = "dispatch" =>
                  /\ ~req[t].hasError
                  /\ cbCalls[t] = 0
                  /\ use[t] = NewUse
                  /\ connOut[t] = ""
            /\ cbCalls[t] <= 1
            /\ cbCalls[t] = 1 => onRequestCallback # "NULL"
            /\ (pc[t] \in {"close", "fault"} /\ recvLen[t] > 0 /\ ~req[t].hasError) =>
                  /\ cbCalls[t] = IF onRequestCallback = "NULL" THEN 0 ELSE 1
                  /\ onRequestCallback \in {"NULL", "silent"} =>
                        (use[t] = NewUse /\ connOut[t] = "")
                  /\ onRequestCallback \in {"example", "unknown"} =>
                        Len(use[t].sends) = 1
                  /\ connOut[t] = Taken(use[t].sends))

\* A handler has read and parsed a request without error and invoked a
\* callback that does not send: it is about to close, and its connection has
\* received nothing.
C17_Witness ==
    /\ onRequestCallback = "silent"
    /\ \E t \in Conns :
          /\ pc[t] = "close"
          /\ recvLen[t] > 0
          /\ ~req[t].hasError
          /\ req[t].url = "/nope"
          /\ cbCalls[t] = 1
          /\ connOut[t] = ""

\* C18: when the read returns 0 or a negative result the handler goes
\* straight to the close: the parser is not called, the callback is not
\* invoked, nothing is written to the connection, the Request and the
\* Response still have their default values, and the handler's next step
\* closes the connection.
C18_EmptyOrFailedReadCloses ==
    /\ [](\A t \in Conns :
            /\ pc[t] \in {"parse", "error", "dispatch", "fault"} => recvLen[t] > 0
            /\ (pc[t] = "close" /\ recvLen[t] <= 0) =>
                  /\ req[t] = NewRequest
                  /\ use[t] = NewUse
                  /\ connOut[t] = ""
                  /\ cbCalls[t] = 0
                  /\ closes[t] = 0
                  /\ ConnOf(sock[t]) = t)
    /\ [][\A t \in Conns :
            /\ (pc[t] = "recv" /\ pc'[t] # "recv" /\ recvLen'[t] <= 0) =>
                  pc'[t] = "close"
            /\ (pc[t] = "close" /\ recvLen[t] <= 0 /\ pc'[t] # "close") =>
                  /\ pc'[t] = "done"
                  /\ closes'[t] = 1
                  /\ cbCalls'[t] = 0
                  /\ connOut'[t] = ""
                  /\ fdTable'[sock[t]] = 0]_vars

\* Two handlers are about to close: the read of one returned 0 (its peer
\* closed), the read of the other failed.
C18_Witness ==
    \E t, u \in Conns :
        /\ pc[t] = "close" /\ recvLen[t] = 0 /\ peer[t].kind = "closed"
        /\ pc[u] = "close" /\ recvLen[u] < 0 /\ peer[u].kind = "error"

(***************************************************************************)
(* The parser on its own: one call of httpRequestParse on a fresh Request. *)
(***************************************************************************)

\* A request of the shape METHOD SP PATH SP "HTTP/1." DIGIT CRLF
\* Key ": " Value CRLF CRLF.
WellFormed(method, path, digit, key, value) ==
    method \o " " \o path \o " HTTP/1." \o digit \o "\r\n"
        \o key \o ": " \o value \o "\r\n\r\n"

Methods == {"GET", "P/1"}
Paths   == {"/", "/x", "/a/b.1"}
\* Version digits with the number expected of each.
Digits  == {<<"0", 0>>, <<"1", 1>>, <<"9", 9>>}
\* Header names with the lower-case form expected of each.
Keys    == {<<"Host", "host">>, <<"X-Ab1", "x-ab1">>, <<"a", "a">>}
Values  == {"a", "b/1.0", ""}

WellFormedBuffers ==
    { WellFormed(m, p, d[1], k[1], v) :
        m \in Methods, p \in Paths, d \in Digits, k \in Keys, v \in Values }

\* A request line with the given protocol token and version text.
RequestLine(protocol, version) ==
    "GET / " \o protocol \o "/" \o version \o "\r\n\r\n"

Protocols == {"HTTP", "FOO", "http", "", "HTTPS"}
Versions  == {"1.1", "1.0", "2.0", "0.9", "11.1", "12.0", "21.10", "1", ".1", ""}

RequestLines == { RequestLine(p, v) : p \in Protocols, v \in Versions }

\* Requests with a query string, filtered characters, repeated and oddly
\* written headers, a second slash in the protocol field.
OddBuffers ==
    { "GET /a?b=1 HTTP/1.1\r\n\r\n",
      "GET /<script>?q='\"<x> HTTP/1.0\r\n\r\n",
      "GET /? HTTP/1.1\r\nHost: a\r\nhost: b\r\n\r\n",
      "GET / HTTP/1.1\r\nA:  b c\r\nB:c:d\r\nno colon\r\n\r\n",
      "GET / HT/TP/1.1\r\n\r\n",
      "GET / HTTP/1.1\nHost:a\n\n",
      "GET  HTTP/1.1\r\n\r\n" }

\* A request with two header lines, each "Name:" followed by a value as
\* written (leading spaces and carriage returns included).
HeaderPair(k1, v1, k2, v2) ==
    "GET / HTTP/1.1\r\n" \o k1 \o ":" \o v1 \o "\r\n"
        \o k2 \o ":" \o v2 \o "\r\n\r\n"

\* Requests whose two header lines carry names that differ in case only, or
\* not at all, or differ.
HeaderBuffers ==
    { HeaderPair(k1, v1, k2, v2) :
        k1 \in {"Host", "HOST", "X-a"}, v1 \in {" a", "  a b\r"},
        k2 \in {"host", "hOsT"},        v2 \in {" b", ""} }

Prefixes(S) == UNION { { SubSeq(b, 1, n) : n \in 0..Len(b) } : b \in S }

\* The bytes raw buffers are made of, and the longest raw buffer.
RawChars == {" ", "/", "1", ".", "\n", "H"}
MaxRaw   == 3

RECURSIVE RawStrings(_)
RawStrings(n) ==
    IF n = 0 THEN {""}
    ELSE LET shorter == RawStrings(n - 1)
         IN  shorter \cup { s \o c : s \in shorter, c \in RawChars }

Buffers ==
    WellFormedBuffers \cup RequestLines \cup OddBuffers \cup HeaderBuffers
        \cup Prefixes(OddBuffers \cup {RequestLine("HTTP", "1.1"), RequestLine("FOO", "2.0")})
        \cup RawStrings(MaxRaw)

\* The caller has a fresh Request and enters httpRequestParse with a buffer.
InitParse ==
    /\ pbuffer \in Buffers
    /\ pi = 0
    /\ pp = ParseEntry(NewRequest)
    /\ ppc = "loop"
    /\ RespIdle
    /\ SrvIdle

\* One iteration of the for loop.
ParseIterate ==
    /\ ppc = "loop"
    /\ pi < Len(pbuffer)
    /\ pp' = ParseByte(pp, CharAt(pbuffer, pi + 1))
    /\ pi' = pi + 1
    /\ UNCHANGED <<pbuffer, ppc, respVars, srvVars>>

\* The loop is over: tmp.clear(), the check of the major version, return.
ParseReturn ==
    /\ ppc = "loop"
    /\ pi = Len(pbuffer)
    /\ pp' = [pp EXCEPT !.tmp = "", !.req = ParsePostPass(pp.req)]
    /\ ppc' = "done"
    /\ UNCHANGED <<pbuffer, pi, respVars, srvVars>>

NextParse == ParseIterate \/ ParseReturn

SpecParse == InitParse /\ [][NextParse]_vars

(***************************************************************************)
(* A Response on its own: an application calls the methods of one Response *)
(* in any order, as a registered callback may.                             *)
(***************************************************************************)

\* How many calls the application makes on the Response.
MaxCalls == 3

AppHeaderNames  == {"Content-Length", "Connection", "Server"}
AppHeaderValues == {"7", "close"}
AppStatusCodes  == {404, 999}
AppBodies       == {"hi", "0123456789ab"}
MinorVersions   == {0, 1, 9}

\* What the transport answers to the send(2) calls of one write: everything
\* at once, an error at once, one byte and then nothing, two bytes and then
\* an error.
TransportPlans == {<<>>, <<-1>>, <<1, 0>>, <<2, -1>>}

InitResponse ==
    /\ ruse = NewUse
    /\ rminor \in MinorVersions
    /\ rcalls = 0
    /\ ParseIdle
    /\ SrvIdle

CanCall == rcalls < MaxCalls /\ ~ruse.faulted

RespHeader ==
    /\ CanCall
    /\ \E key \in AppHeaderNames, value \in AppHeaderValues :
          ruse' = header(ruse, key, value)
    /\ rcalls' = rcalls + 1
    /\ UNCHANGED <<rminor, parseVars, srvVars>>

\* res->statusCode = ...
RespSetStatus ==
    /\ CanCall
    /\ \E code \in AppStatusCodes : ruse' = [ruse EXCEPT !.res.statusCode = code]
    /\ rcalls' = rcalls + 1
    /\ UNCHANGED <<rminor, parseVars, srvVars>>

\* res->body = ...
RespSetBody ==
    /\ CanCall
    /\ \E text \in AppBodies : ruse' = [ruse EXCEPT !.res.body = text]
    /\ rcalls' = rcalls + 1
    /\ UNCHANGED <<rminor, parseVars, srvVars>>

RespErrorPage ==
    /\ CanCall
    /\ \E ub \in UBOutcomes : ruse' = errorPage(ruse, ub)
    /\ rcalls' = rcalls + 1
    /\ UNCHANGED <<rminor, parseVars, srvVars>>

RespSend ==
    /\ CanCall
    /\ \E ub \in UBOutcomes, planHead \in TransportPlans, planBody \in TransportPlans :
          ruse' = send(ruse, rminor, ub, planHead, planBody)
    /\ rcalls' = rcalls + 1
    /\ UNCHANGED <<rminor, parseVars, srvVars>>

NextResponse ==
    RespHeader \/ RespSetStatus \/ RespSetBody \/ RespErrorPage \/ RespSend

SpecResponse == InitResponse /\ [][NextResponse]_vars

\* C1: a well-formed request METHOD SP PATH SP "HTTP/1." DIGIT CRLF
\* Key ": " Value CRLF CRLF, parsed by one call on a fresh Request, gives
\* method = METHOD, url = PATH, an empty queryString, version 1.DIGIT,
\* hasError = false and the single header lowercase(Key) -> Value: the blank
\* line that ends the request adds no entry.
C1_WellFormedRequestParsed ==
    ppc = "done" =>
        \A m \in Methods, p \in Paths, d \in Digits, k \in Keys, v \in Values :
            pbuffer = WellFormed(m, p, d[1], k[1], v) =>
                pp.req = [ hasError         |-> FALSE,
                           method           |-> m,
                           url              |-> p,
                           queryString      |-> "",
                           httpMajorVersion |-> 1,
                           httpMinorVersion |-> d[2],
                           headers          |-> [x \in {k[2]} |-> v] ]

\* The request of the spec's example has been parsed.
C1_Witness ==
    /\ ppc = "done"
    /\ pbuffer = "GET /x HTTP/1.1\r\nHost: a\r\n\r\n"
    /\ pbuffer \in WellFormedBuffers
    /\ pp.req.method = "GET"
    /\ DOMAIN pp.req.headers = {"host"}

\* Some '/' of buf is read in the PROTOCOL state while the accumulated token
\* is not "HTTP".
ProtocolMismatch(buf) ==
    \E k \in 1..Len(buf) :
        LET before == ParseLoop(ParseEntry(NewRequest), SubSeq(buf, 1, k - 1), 1)
        IN  /\ before.state = PARSER_STATE_PROTOCOL
            /\ CharAt(buf, k) = "/"
            /\ before.tmp # "HTTP"

\* C2: after one call on a fresh Request, whatever the buffer, hasError is
\* true exactly when a '/' was read in the PROTOCOL state with a token other
\* than "HTTP" or the major version is not 1 at the end; and during the call
\* hasError, once true, stays true.
C2_HasErrorExactly ==
    /\ [](ppc = "done" =>
            (pp.req.hasError <=>
                (ProtocolMismatch(pbuffer) \/ pp.req.httpMajorVersion # 1)))
    /\ [][pp.req.hasError => pp'.req.hasError]_vars

\* A call has returned with hasError set by the protocol token alone.
C2_Witness ==
    /\ ppc = "done"
    /\ pp.req.hasError
    /\ pp.req.httpMajorVersion = 1
    /\ ProtocolMismatch(pbuffer)

(***************************************************************************)
(* Reading a serialized header block back, as a client would.              *)
(***************************************************************************)

RECURSIVE Find(_, _, _)
\* The least position >= k at which pat occurs in text, 0 when there is none.
Find(text, pat, k) ==
    IF k + Len(pat) - 1 > Len(text) THEN 0
    ELSE IF SubSeq(text, k, k + Len(pat) - 1) = pat THEN k
    ELSE Find(text, pat, k + 1)

RECURSIVE Lines(_)
\* The lines of text, each ended by CRLF (an unterminated rest is a line too).
Lines(text) ==
    IF Len(text) = 0 THEN <<>>
    ELSE LET k == Find(text, "\r\n", 1)
         IN  IF k = 0 THEN <<text>>
             ELSE <<SubSeq(text, 1, k - 1)>> \o Lines(SubSeq(text, k + 2, Len(text)))

\* The header lines of a block: what lies between the status line and the
\* blank line.
HeaderLinesOf(head) ==
    LET ls == Lines(head)
        blank == CHOOSE j \in 2..(Len(ls) + 1) :
                    /\ j = Len(ls) + 1 \/ ls[j] = ""
                    /\ \A i \in 2..(j - 1) : ls[i] # ""
    IN  SubSeq(ls, 2, blank - 1)

LineName(line)  == SubSeq(line, 1, Find(line, ": ", 1) - 1)
LineValue(line) == SubSeq(line, Find(line, ": ", 1) + 2, Len(line))

\* The names of the header lines of a block, in the order written.
NamesOf(head) ==
    LET ls == HeaderLinesOf(head) IN [j \in 1..Len(ls) |-> LineName(ls[j])]

IsDecimal(text) ==
    /\ Len(text) > 0
    /\ \A k \in 1..Len(text) : isdigit(CharAt(text, k))

RECURSIVE DecimalValue(_)
DecimalValue(text) ==
    IF Len(text) = 0 THEN 0
    ELSE 10 * DecimalValue(SubSeq(text, 1, Len(text) - 1))
            + (CharCode(CharAt(text, Len(text))) - 48)

\* The send() calls of the Response that got as far as a header block.
Serialized == { i \in 1..Len(ruse.sends) : ruse.sends[i].head # "" }

\* C5: every header block send() serializes carries exactly one
\* Content-Length line, and its value is the decimal length of the body as
\* it was when send() was called, whatever value was stored before.
C5_ContentLengthIsBodyLength ==
    \A i \in Serialized :
        LET ls == HeaderLinesOf(ruse.sends[i].head)
            at == { j \in 1..Len(ls) : LineName(ls[j]) = "Content-Length" }
        IN  /\ Cardinality(at) = 1
            /\ \A j \in at :
                  /\ IsDecimal(LineValue(ls[j]))
                  /\ DecimalValue(LineValue(ls[j])) = Len(ruse.sends[i].body)

\* Two blocks were serialized for bodies of different lengths: the second
\* send() found the Content-Length the first had stored.
C5_Witness ==
    /\ Len(ruse.sends) = 2
    /\ Serialized = {1, 2}
    /\ Len(ruse.sends[1].body) = 0
    /\ Len(ruse.sends[2].body) = 12

\* C6: every header block send() serializes has the line
\* "Connection: close".
C6_ConnectionCloseWritten ==
    \A i \in Serialized :
        \E j \in 1..Len(HeaderLinesOf(ruse.sends[i].head)) :
            HeaderLinesOf(ruse.sends[i].head)[j] = "Connection: close"

\* C7 as stated: the header lines are written in the order in which their
\* names were first inserted.
C7_InsertionOrderWritten ==
    \A i \in Serialized : NamesOf(ruse.sends[i].head) = ruse.sends[i].order

\* C7, amended: the header lines are written in ascending byte order of
\* their names, one line for each name inserted so far, whatever the order
\* of the insertions.
C7_AscendingOrderWritten ==
    \A i \in Serialized :
        LET names == NamesOf(ruse.sends[i].head)
            order == ruse.sends[i].order
        IN  /\ \A j \in 1..(Len(names) - 1) : StrLess(names[j], names[j + 1])
            /\ { names[j] : j \in 1..Len(names) } = { order[j] : j \in 1..Len(order) }

\* A block was serialized after the application had inserted "Server" and
\* then "Connection": four lines, inserted in an order that is not ascending.
C7_Witness ==
    \E i \in Serialized :
        /\ Len(ruse.sends[i].order) = 4
        /\ ruse.sends[i].order[1] = "Server"
        /\ ruse.sends[i].order[2] = "Connection"
        /\ NamesOf(ruse.sends[i].head)[4] = "Server"

\* C8: with a status code that is not in the table, errorPage() and send()
\* run to their end, and the status line carries an empty reason phrase.
C8_UnknownStatusHarmless ==
    /\ ~ruse.faulted
    /\ \A i \in 1..Len(ruse.sends) :
          ruse.sends[i].status \notin DOMAIN StatusTable =>
              /\ ruse.sends[i].returned # "fault"
              /\ Lines(ruse.sends[i].head)[1]
                    = "HTTP/1." \o (IF ruse.sends[i].minor = 0 THEN "0" ELSE "1")
                        \o " " \o to_string(ruse.sends[i].status) \o " "

(***************************************************************************)
(* The parser called twice on one Request: a caller that received a        *)
(* request in two reads hands each chunk to httpRequestParse in turn.      *)
(***************************************************************************)

\* The requests that arrive in two chunks.
ChunkBuffers ==
    { "GET / HTTP/1.1\r\nHost: a\r\n\r\n",
      "GET /a?b=1 HTTP/1.0\r\n\r\n",
      "POST /x HTTP/1.1\r\nA: b\r\nC: d\r\n\r\n" }

\* The caller has a fresh Request and the bytes of a request.
InitChunks ==
    /\ pbuffer \in ChunkBuffers
    /\ pi = 0
    /\ pp = ParseEntry(NewRequest)
    /\ ppc = "first"
    /\ RespIdle
    /\ SrvIdle

\* httpRequestParse(req, buffer, k): the call on the first k bytes.  What it
\* leaves is the Request; state, tmp and isKey are locals of the call.
ChunkFirst ==
    /\ ppc = "first"
    /\ \E k \in 0..Len(pbuffer) :
          /\ pp' = ParseEntry(httpRequestParse(pp.req, SubSeq(pbuffer, 1, k)))
          /\ pi' = k
    /\ ppc' = "second"
    /\ UNCHANGED <<pbuffer, respVars, srvVars>>

\* httpRequestParse(req, buffer + k, length - k): the call on the rest, with
\* the same Request.
ChunkSecond ==
    /\ ppc = "second"
    /\ pp' = ParseEntry(httpRequestParse(pp.req,
                                         SubSeq(pbuffer, pi + 1, Len(pbuffer))))
    /\ pi' = Len(pbuffer)
    /\ ppc' = "both"
    /\ UNCHANGED <<pbuffer, respVars, srvVars>>

NextChunks == ChunkFirst \/ ChunkSecond

SpecChunks == InitChunks /\ [][NextChunks]_vars

\* C11: the parser is incremental: after the call on the first chunk and the
\* call on the second chunk, with the same Request, the Request is what one
\* call on the whole byte sequence leaves in a fresh Request, whatever the
\* split.
C11_ChunkedParseEqualsWhole ==
    ppc = "both" => pp.req = httpRequestParse(NewRequest, pbuffer)

\* a is the beginning of b.
IsPrefix(a, b) == Len(a) <= Len(b) /\ SubSeq(b, 1, Len(a)) = a

\* C12: a call of send() performs at most two writes, the first of the
\* header block and the second of the body; it returns false exactly when
\* one of the writes it performed reported a negative result; and when the
\* header write reported a negative result there is no body write.
C12_TwoWritesFalseOnNegative ==
    \A i \in 1..Len(ruse.sends) :
        LET call == ruse.sends[i]
            w    == call.writes
        IN  /\ Len(w) <= 2
            /\ Len(w) >= 1 => IsPrefix(w[1].taken, call.head)
            /\ Len(w) = 2 => (IsPrefix(w[2].taken, call.body) /\ w[1].n >= 0)
            /\ (Len(w) >= 1 /\ w[1].n < 0) => Len(w) = 1
            /\ call.returned = "true" => Len(w) = 2
            /\ call.returned = "false" <=> \E j \in 1..Len(w) : w[j].n < 0

\* Two calls of send() on a Response with a body: the first lost its header
\* write, the second got its whole header block through and lost the body
\* write after two bytes.
C12_Witness ==
    /\ Len(ruse.sends) = 2
    /\ ruse.res.body = "0123456789ab"
    /\ Len(ruse.sends[1].writes) = 1
    /\ ruse.sends[1].writes[1].n < 0
    /\ ruse.sends[1].returned = "false"
    /\ Len(ruse.sends[2].writes) = 2
    /\ ruse.sends[2].writes[1].taken = ruse.sends[2].head
    /\ ruse.sends[2].writes[2].taken = "01"
    /\ ruse.sends[2].writes[2].n < 0
    /\ ruse.sends[2].returned = "false"

\* The status line of a header block, read back: its three fields, separated
\* by the first two spaces.
StatusLineOf(head) ==
    LET line == Lines(head)[1]
        sp1  == Find(line, " ", 1)
        sp2  == Find(line, " ", sp1 + 1)
    IN  [ version |-> SubSeq(line, 1, sp1 - 1),
          code    |-> SubSeq(line, sp1 + 1, sp2 - 1),
          reason  |-> SubSeq(line, sp2 + 1, Len(line)) ]

\* The send() calls that serialized a block for a status code of the table.
SerializedKnown ==
    { i \in Serialized : ruse.sends[i].status \in DOMAIN StatusTable }

\* C13 as stated: the status line starts with "HTTP/1.0" when the request's
\* minor version is 0, and with "HTTP/1.1" for every other minor version,
\* among which the statement counts the default 0 of a request whose version
\* was never parsed.
C13_DefaultMinorWrittenAsOne ==
    \A i \in SerializedKnown :
        LET minor == ruse.sends[i].minor
            line  == StatusLineOf(ruse.sends[i].head)
        IN  /\ minor = 0 => line.version = "HTTP/1.0"
            /\ (minor # 0 \/ minor = NewRequest.httpMinorVersion) =>
                  line.version = "HTTP/1.1"

\* C13, amended: the block begins with the status line; it starts with
\* "HTTP/1.0" when the request's minor version is 0, the default 0 of a
\* Request that was never parsed included, and with "HTTP/1.1" for every
\* other minor version; then come a space, the status code in decimal, a
\* space, the reason phrase of the code, and CRLF.
C13_StatusLineWritten ==
    \A i \in SerializedKnown :
        LET call == ruse.sends[i]
            line == StatusLineOf(call.head)
        IN  /\ line.version = IF call.minor = 0 THEN "HTTP/1.0" ELSE "HTTP/1.1"
            /\ IsDecimal(line.code)
            /\ DecimalValue(line.code) = call.status
            /\ line.reason = StatusTable[call.status]
            /\ IsPrefix(line.version \o " " \o line.code \o " " \o line.reason
                            \o "\r\n", call.head)

\* A 404 was serialized in answer to a request whose minor version is 0, the
\* value a fresh Request has.
C13_Witness ==
    /\ rminor = NewRequest.httpMinorVersion
    /\ \E i \in SerializedKnown :
          /\ ruse.sends[i].status = 404
          /\ Lines(ruse.sends[i].head)[1] = "HTTP/1.0 404 Not Found"

(***************************************************************************)
(* The request line read as text, without the parser's states.             *)
(***************************************************************************)

RECURSIVE FindAny(_, _, _)
\* The least position >= k of text that holds one of chars, 0 when none does.
FindAny(text, chars, k) ==
    IF k > Len(text) THEN 0
    ELSE IF CharAt(text, k) \in chars THEN k
    ELSE FindAny(text, chars, k + 1)

Markup == {"<", ">", "\"", "'"}

RECURSIVE Without(_, _)
\* text with the characters of chars taken out.
Without(text, chars) ==
    IF Len(text) = 0 THEN ""
    ELSE (IF CharAt(text, 1) \in chars THEN "" ELSE CharAt(text, 1))
            \o Without(Tail(text), chars)

HasNone(text, chars) == \A k \in 1..Len(text) : CharAt(text, k) \notin chars

\* Where the path of buf starts (after the first space), where it ends (at
\* the next space or '?'), and where the query string ends (at the next
\* space after a '?'); 0 for a position the buffer does not reach.
PathBounds(buf) ==
    LET sp   == FindAny(buf, {" "}, 1)
        stop == IF sp = 0 THEN 0 ELSE FindAny(buf, {" ", "?"}, sp + 1)
        qs   == IF stop # 0 /\ CharAt(buf, stop) = "?" THEN stop ELSE 0
        qend == IF qs = 0 THEN 0 ELSE FindAny(buf, {" "}, qs + 1)
    IN  [from |-> sp, to |-> stop, question |-> qs, queryEnd |-> qend]

\* C14: after one call on a fresh Request, url and queryString hold none of
\* < > " ' : url is the text between the first space and the next space or
\* '?', with those characters taken out, and queryString is the text between
\* that '?' and the next space, with those characters taken out; queryString
\* is empty when the path ended at a space; both are empty when the buffer
\* ends before their terminator.
C14_UrlAndQueryFiltered ==
    ppc = "done" =>
        LET b == PathBounds(pbuffer)
        IN  /\ HasNone(pp.req.url, Markup)
            /\ HasNone(pp.req.queryString, Markup)
            /\ pp.req.url =
                  IF b.to = 0 THEN ""
                  ELSE Without(SubSeq(pbuffer, b.from + 1, b.to - 1), Markup)
            /\ pp.req.queryString =
                  IF b.queryEnd = 0 THEN ""
                  ELSE Without(SubSeq(pbuffer, b.question + 1, b.queryEnd - 1),
                               Markup)

\* A request whose path and query string both carry filtered characters has
\* been parsed.
C14_Witness ==
    /\ ppc = "done"
    /\ pbuffer = "GET /<script>?q='\"<x> HTTP/1.0\r\n\r\n"
    /\ pp.req.url = "/script"
    /\ pp.req.queryString = "q=x"

(***************************************************************************)
(* The header section read as text: lines ended by a newline, each cut at  *)
(* its first colon.                                                        *)
(***************************************************************************)

UpperLetters == "ABCDEFGHIJKLMNOPQRSTUVWXYZ"
LowerLetters == "abcdefghijklmnopqrstuvwxyz"

IsUpper(c) == \E k \in 1..26 : CharAt(UpperLetters, k) = c

\* c, or the lower-case letter that stands for it.
Lowered(c) ==
    IF IsUpper(c)
    THEN CharAt(LowerLetters, CHOOSE k \in 1..26 : CharAt(UpperLetters, k) = c)
    ELSE c

RECURSIVE LoweredText(_)
LoweredText(text) ==
    IF Len(text) = 0 THEN ""
    ELSE Lowered(CharAt(text, 1)) \o LoweredText(Tail(text))

RECURSIVE NewlineLines(_)
\* The lines of text: each ends before a newline, the last at the end of text.
NewlineLines(text) ==
    LET k == FindAny(text, {"\n"}, 1)
    IN  IF k = 0 THEN <<text>>
        ELSE <<SubSeq(text, 1, k - 1)>> \o NewlineLines(SubSeq(text, k + 1, Len(text)))

RECURSIVE WithoutLeadingSpaces(_)
WithoutLeadingSpaces(text) ==
    IF Len(text) > 0 /\ CharAt(text, 1) = " "
    THEN WithoutLeadingSpaces(Tail(text))
    ELSE text

\* The text after the request line: what follows the first newline after the
\* first '.' after the first '/' after the end of the path and query string.
\* A sequence of no lines when the buffer does not get that far.
HeaderSection(buf) ==
    LET b       == PathBounds(buf)
        pathEnd == IF b.question # 0 THEN b.queryEnd ELSE b.to
        slash   == IF pathEnd = 0 THEN 0 ELSE FindAny(buf, {"/"}, pathEnd + 1)
        dot     == IF slash = 0 THEN 0 ELSE FindAny(buf, {"."}, slash + 1)
        newline == IF dot = 0 THEN 0 ELSE FindAny(buf, {"\n"}, dot + 1)
    IN  IF newline = 0 THEN <<>>
        ELSE NewlineLines(SubSeq(buf, newline + 1, Len(buf)))

\* The name a header line is stored under and the value it gives.
FieldName(line) ==
    LoweredText(SubSeq(line, 1, FindAny(line, {":"}, 1) - 1))
FieldValue(line) ==
    WithoutLeadingSpaces(
        Without(SubSeq(line, FindAny(line, {":"}, 1) + 1, Len(line)), {"\r"}))

\* The header map a buffer stands for: one key per name, with the value of
\* the last line of that name.
ExpectedHeaders(buf) ==
    LET ls     == HeaderSection(buf)
        fields == { j \in 1..Len(ls) : FindAny(ls[j], {":"}, 1) # 0 }
        last(n) == CHOOSE j \in fields :
                      /\ FieldName(ls[j]) = n
                      /\ \A i \in fields : FieldName(ls[i]) = n => i <= j
    IN  [ n \in { FieldName(ls[j]) : j \in fields } |-> FieldValue(ls[last(n)]) ]

\* C15: after one call on a fresh Request no key of the header map holds an
\* upper-case letter; lines whose names differ in letter case only are
\* stored under one key; and the value of a key is the value of the last
\* line of that name alone, without its leading spaces and its carriage
\* returns.
C15_HeaderKeysLoweredLastWins ==
    ppc = "done" =>
        /\ \A key \in DOMAIN pp.req.headers :
              \A k \in 1..Len(key) : ~IsUpper(CharAt(key, k))
        /\ pp.req.headers = ExpectedHeaders(pbuffer)

\* A request with the lines "HOST:  a b" and "hOsT: b" has been parsed: one
\* key, with the second value.
C15_Witness ==
    /\ ppc = "done"
    /\ pbuffer = HeaderPair("HOST", "  a b\r", "hOsT", " b")
    /\ DOMAIN pp.req.headers = {"host"}
    /\ pp.req.headers["host"] = "b"

DigitLetters == "0123456789"

IsDigitLetter(c) == \E k \in 1..10 : CharAt(DigitLetters, k) = c

\* The value of the last decimal digit of text, 0 when it has none.
LastDigit(text) ==
    LET at == { k \in 1..Len(text) : IsDigitLetter(CharAt(text, k)) }
    IN  IF at = {} THEN 0
        ELSE LET k == CHOOSE k \in at : \A j \in at : j <= k
             IN  (CHOOSE d \in 1..10 : CharAt(DigitLetters, d) = CharAt(text, k)) - 1

\* The version fields of buf as text: major is what lies between the '/'
\* that ends the protocol token and the next '.', minor what lies between
\* that '.' and the next newline; a field runs to the end of the buffer when
\* its terminator is missing, and is empty when the buffer does not reach it.
VersionText(buf) ==
    LET b       == PathBounds(buf)
        pathEnd == IF b.question # 0 THEN b.queryEnd ELSE b.to
        slash   == IF pathEnd = 0 THEN 0 ELSE FindAny(buf, {"/"}, pathEnd + 1)
        dot     == IF slash = 0 THEN 0 ELSE FindAny(buf, {"."}, slash + 1)
        newline == IF dot = 0 THEN 0 ELSE FindAny(buf, {"\n"}, dot + 1)
    IN  [ major |-> IF slash = 0 THEN ""
                    ELSE SubSeq(buf, slash + 1,
                                IF dot = 0 THEN Len(buf) ELSE dot - 1),
          minor |-> IF dot = 0 THEN ""
                    ELSE SubSeq(buf, dot + 1,
                                IF newline = 0 THEN Len(buf) ELSE newline - 1) ]

\* C19: after one call on a fresh Request httpMajorVersion is the value of
\* the last decimal digit read in the MAJOR state and httpMinorVersion the
\* value of the last decimal digit read in the MINOR state, 0 when no digit
\* was read there: both are in 0..9, and a version written with several
\* digits is reduced to its last digit.
C19_VersionIsLastDigit ==
    ppc = "done" =>
        /\ pp.req.httpMajorVersion \in 0..9
        /\ pp.req.httpMinorVersion \in 0..9
        /\ pp.req.httpMajorVersion = LastDigit(VersionText(pbuffer).major)
        /\ pp.req.httpMinorVersion = LastDigit(VersionText(pbuffer).minor)

\* The version "21.10" has been parsed: major 1, minor 0.
C19_Witness ==
    /\ ppc = "done"
    /\ pbuffer = RequestLine("HTTP", "21.10")
    /\ pp.req.httpMajorVersion = 1
    /\ pp.req.httpMinorVersion = 0
    /\ ~pp.req.hasError

\* C20: every write of send() comes to an end, with a result between -1 and
\* the length it was given, and whenever send() returns true the transport
\* has been handed every byte of the header block and every byte of the
\* body: a write that stopped on an answer of 0 is not a success.
C20_TrueMeansAllBytesHandedOver ==
    \A i \in 1..Len(ruse.sends) :
        LET call == ruse.sends[i]
        IN  /\ \A j \in 1..Len(call.writes) :
                  call.writes[j].n \in -1..(Len(call.head) + Len(call.body))
            /\ call.returned = "true" =>
                  /\ call.writes[1].taken = call.head
                  /\ call.writes[2].taken = call.body

====
